---- MODULE Spec2Model ----
(***************************************************************************)
(* A model of the AstrologyChartAPI request handlers: main_arabic.py (the  *)
(* chart handler with geocoding, houses and ascendant, followed by a       *)
(* second application object and a stub handler) and main.py (the first    *)
(* draft, planets only).                                                   *)
(*                                                                         *)
(* Units.  A longitude the ephemeris returns is an integer number of       *)
(* millidegrees (359.996 degrees is 359996); a value the handlers report   *)
(* after round(x, 2) is an integer number of centidegrees (360.0 is        *)
(* 36000).  A Julian Day is an integer number of minutes counted from      *)
(* JD 2400000.0, that is (JD - 2400000) * 1440.                            *)
(* Strings the handlers parse are sequences of one-character strings over  *)
(* the alphabet of digits, "-", ":" and "/".                               *)
(***************************************************************************)
EXTENDS Integers, Sequences, FiniteSets, TLC

VARIABLES
    loadpc,               \* next module-level statement of main_arabic.py
    ARABIC_ZODIAC_SIGNS,  \* main_arabic.py:18, a module-level list
    PLANETS_ARABIC,       \* main_arabic.py:24, a module-level dict (ordered)
    app,                  \* the FastAPI instance the name app is bound to
    routes,               \* per FastAPI instance, its registered handlers
    phase,                \* "idle", "pending" (a call has arrived), "done"
    target,               \* which callable the pending call is made to
    details,              \* the request body
    world,                \* what the collaborators answer during this call
    response,             \* the value the call returned
    escaped,              \* the exception the call let escape, or "none"
    eph_jd,               \* the Julian Day handed to swe.calc_ut, or NoJd
    remembered,           \* an earlier call kept for comparison, or Nothing
    between               \* calls handled since remembered was taken

vars == <<loadpc, ARABIC_ZODIAC_SIGNS, PLANETS_ARABIC, app, routes, phase,
          target, details, world, response, escaped, eph_jd, remembered,
          between>>

-----------------------------------------------------------------------------
(* Python values and helpers *)

Abs(n) == IF n < 0 THEN -n ELSE n

\* round(x, 2) of a value in millidegrees, in centidegrees: to nearest, a
\* decimal tie to the even neighbour.
Round2(m) ==
    LET q == m \div 10
        r == m % 10
    IN  IF r < 5 THEN q
        ELSE IF r > 5 THEN q + 1
        ELSE IF q % 2 = 0 THEN q ELSE q + 1

\* list[idx] with Python's negative indexing; IndexError outside.
ListIndex(list, idx) ==
    IF idx >= 0 /\ idx < Len(list)
        THEN [exc |-> "none", val |-> list[idx + 1]]
    ELSE IF idx < 0 /\ idx >= -Len(list)
        THEN [exc |-> "none", val |-> list[Len(list) + idx + 1]]
    ELSE [exc |-> "IndexError", val |-> ""]

Digits == <<"0", "1", "2", "3", "4", "5", "6", "7", "8", "9">>

IsDigit(c) == \E i \in 1..Len(Digits) : Digits[i] = c

DigitValue(c) == (CHOOSE i \in 1..Len(Digits) : Digits[i] = c) - 1

IsDigits(s) == Len(s) > 0 /\ \A i \in 1..Len(s) : IsDigit(s[i])

RECURSIVE ToInt(_)
ToInt(s) ==
    IF Len(s) = 0 THEN 0
    ELSE 10 * ToInt(SubSeq(s, 1, Len(s) - 1)) + DigitValue(s[Len(s)])

\* str.split(sep): the pieces between the occurrences of sep.
RECURSIVE Split(_, _)
Split(s, sep) ==
    IF \A i \in 1..Len(s) : s[i] # sep THEN <<s>>
    ELSE LET k == CHOOSE i \in 1..Len(s) :
                      s[i] = sep /\ \A j \in 1..(i - 1) : s[j] # sep
         IN  <<SubSeq(s, 1, k - 1)>> \o Split(SubSeq(s, k + 1, Len(s)), sep)

DaysInMonth(year, month) ==
    IF month \in {4, 6, 9, 11} THEN 30
    ELSE IF month # 2 THEN 31
    ELSE IF year % 4 = 0 /\ (year % 100 # 0 \/ year % 400 = 0) THEN 29
    ELSE 28

\* One strptime field of one or two digits with a value in lo..hi.
Field12(s, lo, hi) ==
    IsDigits(s) /\ Len(s) <= 2 /\ ToInt(s) >= lo /\ ToInt(s) <= hi

NoMoment == [exc |-> "ValueError", year |-> 0, month |-> 0, day |-> 0,
             hour |-> 0, minute |-> 0]

\* datetime.strptime(f"{birth_date} {birth_time}", "%Y-%m-%d %H:%M")
strptime(birth_date, birth_time) ==
    LET d == Split(birth_date, "-")
        t == Split(birth_time, ":")
    IN  IF /\ Len(d) = 3 /\ Len(t) = 2
           /\ IsDigits(d[1]) /\ Len(d[1]) = 4 /\ ToInt(d[1]) >= 1
           /\ Field12(d[2], 1, 12)
           /\ Field12(d[3], 1, 31)
           /\ ToInt(d[3]) <= DaysInMonth(ToInt(d[1]), ToInt(d[2]))
           /\ Field12(t[1], 0, 23)
           /\ Field12(t[2], 0, 59)
        THEN [exc |-> "none", year |-> ToInt(d[1]), month |-> ToInt(d[2]),
              day |-> ToInt(d[3]), hour |-> ToInt(t[1]),
              minute |-> ToInt(t[2])]
        ELSE NoMoment

\* year, month, day = map(int, birth_date.split('-'))
\* hour, minute = map(int, birth_time.split(':'))
main_parse(birth_date, birth_time) ==
    LET d == Split(birth_date, "-")
        t == Split(birth_time, ":")
    IN  IF /\ Len(d) = 3 /\ Len(t) = 2
           /\ \A i \in 1..3 : IsDigits(d[i])
           /\ \A i \in 1..2 : IsDigits(t[i])
        THEN [exc |-> "none", year |-> ToInt(d[1]), month |-> ToInt(d[2]),
              day |-> ToInt(d[3]), hour |-> ToInt(t[1]),
              minute |-> ToInt(t[2])]
        ELSE NoMoment

\* swe.julday(year, month, day, hour + minute / 60.0) in the Gregorian
\* calendar: JD = floor(365.25 * u0) + floor(30.6 * u1) + day + hour / 24
\* - 63.5 - u2 + 2, given in minutes from JD 2400000.0.
julday(year, month, day, hour, minute) ==
    LET u  == IF month < 3 THEN year - 1 ELSE year
        u0 == u + 4712
        u1 == IF month + 1 < 4 THEN month + 13 ELSE month + 1
        c  == (Abs(u) \div 100) - (Abs(u) \div 400)
        u2 == IF u < 0 THEN -c ELSE c
        dayno == ((u0 * 1461) \div 4) + ((306 * u1) \div 10) + day - u2 + 2
    IN  (dayno - 2400000) * 1440 - 91440 + hour * 60 + minute

-----------------------------------------------------------------------------
(* Module-level tables.  Sign and planet names are transliterated. *)

ZodiacSignList ==
    <<"al-Hamal", "al-Thawr", "al-Jawza", "al-Saratan", "al-Asad",
      "al-Adhra", "al-Mizan", "al-Aqrab", "al-Qaws", "al-Jady", "al-Dalw",
      "al-Hut">>

\* swe.SUN .. swe.PLUTO are 0 .. 9; a dict keeps its insertion order.
PlanetDict ==
    <<<<0, "al-Shams">>, <<1, "al-Qamar">>, <<2, "Utarid">>,
      <<3, "al-Zuhara">>, <<4, "al-Mirrikh">>, <<5, "al-Mushtari">>,
      <<6, "Zuhal">>, <<7, "Uranus">>, <<8, "Neptune">>, <<9, "Pluto">>>>

main_ARABIC_ZODIAC_SIGNS == ZodiacSignList

main_PLANETS_ARABIC == PlanetDict

HouseKeys ==
    <<"house_1", "house_2", "house_3", "house_4", "house_5", "house_6",
      "house_7", "house_8", "house_9", "house_10", "house_11", "house_12">>

\* d[k] = v on an ordered dict: in place when k is present, appended if not.
DictSet(d, k, v) ==
    IF \E i \in 1..Len(d) : d[i][1] = k
        THEN [i \in 1..Len(d) |-> IF d[i][1] = k THEN <<k, v>> ELSE d[i]]
        ELSE Append(d, <<k, v>>)

DictKeys(d) == [i \in 1..Len(d) |-> d[i][1]]

DictHas(d, k) == \E i \in 1..Len(d) : d[i][1] = k

DictGet(d, k) == d[CHOOSE i \in 1..Len(d) : d[i][1] = k][2]

-----------------------------------------------------------------------------
(* Angle/sign mapping *)

\* A variant that rounds to the nearest sign boundary: int(round(degree / 30)).
SignLookupRounded(signs, degree) ==
    ListIndex(signs, (degree + 15000) \div 30000)

\* ARABIC_ZODIAC_SIGNS[int(degree // 30)], degree in millidegrees.
SignLookup(signs, degree) == ListIndex(signs, degree \div 30000)

get_arabic_zodiac_sign(degree) == SignLookup(ARABIC_ZODIAC_SIGNS, degree)

main_get_arabic_zodiac_sign(degree) ==
    SignLookup(main_ARABIC_ZODIAC_SIGNS, degree)

-----------------------------------------------------------------------------
(* Ephemeris collaborator: body positions *)

\* swe.calc_ut(julian_day, planet): raises, or returns a pair whose order
\* (position first or status first) is the library revision's.
swe_calc_ut(julian_day, planet) ==
    LET a == world.eph[planet + 1]
    IN  IF a.kind = "raise" THEN [kind |-> "raise", first |-> a.status,
                                  second |-> a.status]
        ELSE IF world.tuple_order = "pos_first"
            THEN [kind |-> "return", first |-> a.pos, second |-> a.status]
            ELSE [kind |-> "return", first |-> a.status, second |-> a.pos]

\* main_arabic.py lines 56-87: one body's record from one calc_ut answer.
PlanetRecord(r) ==
    LET pos      == r.first
        ret_code == r.second
    IN  IF ret_code.t # "int" \/ ret_code.int < 0
            THEN [error |-> "Calculation error"]
        ELSE IF pos.t # "seq" \/ Len(pos.seq) = 0
            THEN [error |-> "Invalid position data"]
        ELSE LET degree == pos.seq[1]
                 zodiac_sign == get_arabic_zodiac_sign(degree)
             IN  IF zodiac_sign.exc # "none"
                     THEN [error |-> "Error processing position: list index out of range"]
                     ELSE [position |-> Round2(degree),
                           zodiac_sign |-> zodiac_sign.val]

RECURSIVE PlanetLoop(_, _, _)
PlanetLoop(julian_day, items, planets) ==
    IF items = <<>> THEN [exc |-> "none", val |-> planets]
    ELSE LET planet      == Head(items)[1]
             arabic_name == Head(items)[2]
             r           == swe_calc_ut(julian_day, planet)
         IN  IF r.kind = "raise" THEN [exc |-> "swe.Error", val |-> planets]
             ELSE PlanetLoop(julian_day, Tail(items),
                             DictSet(planets, arabic_name, PlanetRecord(r)))

calculate_planetary_positions(julian_day) ==
    PlanetLoop(julian_day, PLANETS_ARABIC, <<>>)

\* main.py lines 45-50: _, pos = swe.calc_ut(...); pos[0] is used unchecked.
RECURSIVE main_PlanetLoop(_, _, _)
main_PlanetLoop(julian_day, items, planets) ==
    IF items = <<>> THEN [exc |-> "none", val |-> planets]
    ELSE LET planet      == Head(items)[1]
             arabic_name == Head(items)[2]
             r           == swe_calc_ut(julian_day, planet)
             pos         == r.second
         IN  IF r.kind = "raise" THEN [exc |-> "swe.Error", val |-> planets]
             ELSE IF pos.t # "seq" THEN [exc |-> "TypeError", val |-> planets]
             ELSE IF Len(pos.seq) = 0
                 THEN [exc |-> "IndexError", val |-> planets]
             ELSE LET zodiac_sign == main_get_arabic_zodiac_sign(pos.seq[1])
                  IN  IF zodiac_sign.exc # "none"
                          THEN [exc |-> "IndexError", val |-> planets]
                          ELSE main_PlanetLoop(julian_day, Tail(items),
                                   DictSet(planets, arabic_name,
                                       [position |-> Round2(pos.seq[1]),
                                        zodiac_sign |-> zodiac_sign.val]))

main_calculate_planetary_positions(julian_day) ==
    main_PlanetLoop(julian_day, main_PLANETS_ARABIC, <<>>)

-----------------------------------------------------------------------------
(* Geocoding collaborator *)

get_coordinates(location) ==
    LET g == world.geo
    IN  IF g.kind = "ok"
            THEN [exc |-> "none", msg |-> "", lat |-> g.lat, lng |-> g.lng]
        ELSE IF g.kind = "empty"
            THEN [exc |-> "ValueError", msg |-> "Location not found",
                  lat |-> 0, lng |-> 0]
        ELSE IF g.kind = "request_exception"
            THEN [exc |-> "ValueError",
                  msg |-> "Error fetching location data: connection failed",
                  lat |-> 0, lng |-> 0]
        ELSE [exc |-> "KeyError", msg |-> "'results'", lat |-> 0, lng |-> 0]

-----------------------------------------------------------------------------
(* Ephemeris collaborator: houses and ascendant *)

\* A variant of the failure value that also carries empty chart parts.
HousesErrorWithDefaults ==
    [error |-> "Could not calculate houses and Ascendant",
     houses |-> <<>>,
     ascendant |-> [degree |-> 0, zodiac_sign |-> ""]]

\* main_arabic.py line 154: what a failed house calculation returns.
HousesError == [error |-> "Could not calculate houses and Ascendant"]

RECURSIVE HouseLoop(_, _, _)
HouseLoop(houses, i, houses_data) ==
    IF i = 12 THEN [exc |-> "none", val |-> houses_data]
    ELSE IF i >= Len(houses) THEN [exc |-> "IndexError", val |-> houses_data]
    ELSE LET house_degree == houses[i + 1]
             zodiac_sign  == get_arabic_zodiac_sign(house_degree)
         IN  IF zodiac_sign.exc # "none"
                 THEN [exc |-> "IndexError", val |-> houses_data]
                 ELSE HouseLoop(houses, i + 1,
                          DictSet(houses_data, HouseKeys[i + 1],
                              [degree |-> Round2(house_degree),
                               zodiac_sign |-> zodiac_sign.val]))

calculate_houses_and_ascendant(julian_day, latitude, longitude) ==
    LET h == world.houses
    IN  IF h.kind = "raise" THEN HousesError
        ELSE IF Len(h.ascmc) = 0 THEN HousesError
        ELSE LET ascendant_degree == h.ascmc[1]
                 loop             == HouseLoop(h.cusps, 0, <<>>)
                 ascendant_sign   == get_arabic_zodiac_sign(ascendant_degree)
             IN  IF loop.exc # "none" \/ ascendant_sign.exc # "none"
                     THEN HousesError
                     ELSE [houses |-> loop.val,
                           ascendant |->
                               [degree |-> Round2(ascendant_degree),
                                zodiac_sign |-> ascendant_sign.val]]

-----------------------------------------------------------------------------
(* The handlers' return values *)

NoCall == [called |-> FALSE, jd |-> 0]

Called(julian_day) == [called |-> TRUE, jd |-> julian_day]

Returned(value, eph) == [response |-> value, escaped |-> "none", eph |-> eph]

NoResponse == [none |-> TRUE]

Raised(exc, eph) == [response |-> NoResponse, escaped |-> exc, eph |-> eph]

InternalServerError(detail) ==
    [error |-> "Internal Server Error", details |-> detail]

\* main_arabic.py lines 159-200, the handler defined first.
calculate_chart_return(d) ==
    LET birth_datetime == strptime(d.birth_date, d.birth_time)
        julian_day == julday(birth_datetime.year, birth_datetime.month,
                             birth_datetime.day, birth_datetime.hour,
                             birth_datetime.minute)
        coordinates == get_coordinates(d.location)
        planets_chart == calculate_planetary_positions(julian_day)
        called == IF Len(PLANETS_ARABIC) > 0 THEN Called(julian_day)
                  ELSE NoCall
        houses_and_ascendant ==
            calculate_houses_and_ascendant(julian_day, coordinates.lat,
                                           coordinates.lng)
    IN  IF birth_datetime.exc # "none"
            THEN Returned([error |-> "time data does not match format"],
                          NoCall)
        ELSE IF coordinates.exc = "ValueError"
            THEN Returned([error |-> coordinates.msg], NoCall)
        ELSE IF coordinates.exc # "none"
            THEN Returned(InternalServerError(coordinates.msg), NoCall)
        ELSE IF planets_chart.exc # "none"
            THEN Returned(InternalServerError(planets_chart.exc), called)
        ELSE IF "ascendant" \notin DOMAIN houses_and_ascendant
            THEN Returned(InternalServerError("'ascendant'"), called)
        ELSE Returned([name |-> d.name,
                       chart_in_arabic |-> planets_chart.val,
                       ascendant |-> houses_and_ascendant.ascendant,
                       houses |-> houses_and_ascendant.houses,
                       location |-> [latitude |-> coordinates.lat,
                                     longitude |-> coordinates.lng]],
                      called)

\* main_arabic.py lines 216-218, the handler defined second.
calculate_chart_stub_return(data) ==
    Returned([message |-> "Chart calculated successfully", data |-> data],
             NoCall)

\* main.py lines 55-67.
main_calculate_chart_return(d) ==
    LET moment == main_parse(d.birth_date, d.birth_time)
        julian_day == julday(moment.year, moment.month, moment.day,
                             moment.hour, moment.minute)
        planets_chart == main_calculate_planetary_positions(julian_day)
    IN  IF moment.exc # "none" THEN Raised(moment.exc, NoCall)
        ELSE IF planets_chart.exc # "none"
            THEN Raised(planets_chart.exc, Called(julian_day))
        ELSE Returned([name |-> d.name,
                       chart_in_arabic |-> planets_chart.val],
                      Called(julian_day))

-----------------------------------------------------------------------------
(* The calls and collaborator answers the model draws from *)

\* How many of a call's inputs (the birth moment, the geocoder's answer, the
\* house answer, each body's ephemeris answer) may depart from the nominal.
MaxFaults == 1

\* How many calls are counted between a remembered call and its repetition.
MaxBetween == 2

IntVal(n) == [t |-> "int", int |-> n, seq |-> <<>>]

SeqVal(q) == [t |-> "seq", int |-> 0, seq |-> q]

OtherVal == [t |-> "other", int |-> 0, seq |-> <<>>]

EphReturn(pos, status) == [kind |-> "return", pos |-> pos, status |-> status]

NominalLongitudes ==
    <<84210, 213370, 71480, 99120, 150660, 3470, 290810, 278330, 282940,
      226180>>

NominalEph(planet) ==
    EphReturn(SeqVal(<<NominalLongitudes[planet + 1]>>), IntVal(2))

\* The ways one body's ephemeris answer departs from the nominal.
BodyFaults(planet) ==
    LET lon == NominalLongitudes[planet + 1]
    IN  << [kind |-> "raise", pos |-> OtherVal, status |-> OtherVal],
           EphReturn(SeqVal(<<lon>>), IntVal(-1)),
           EphReturn(SeqVal(<<lon>>), OtherVal),
           EphReturn(SeqVal(<<>>), IntVal(2)),
           EphReturn(OtherVal, IntVal(2)),
           EphReturn(SeqVal(<<359996>>), IntVal(2)),
           EphReturn(SeqVal(<<360000>>), IntVal(2)),
           EphReturn(SeqVal(<<-10000>>), IntVal(2)),
           EphReturn(SeqVal(<<29999>>), IntVal(2)) >>

NominalDate == <<"1", "9", "9", "0", "-", "0", "6", "-", "1", "5">>

NominalTime == <<"1", "4", ":", "3", "0">>

\* Birth date and time strings other than the nominal 1990-06-15 14:30.
MomentFaults ==
    << [birth_date |-> <<"1", "7", "0", "0", "-", "0", "6", "-", "1", "5">>, birth_time |-> NominalTime],
       [birth_date |-> <<"2", "5", "0", "0", "-", "0", "6", "-", "1", "5">>, birth_time |-> NominalTime],
       [birth_date |-> <<"1", "9", "9", "0", "/", "0", "6", "/", "1", "5">>, birth_time |-> NominalTime],
       [birth_date |-> NominalDate, birth_time |-> <<"1", "4", "3", "0">>],
       [birth_date |-> <<"1", "9", "9", "0", "-", "1", "3", "-", "0", "1">>, birth_time |-> NominalTime],
       [birth_date |-> <<"1", "9", "9", "0", "-", "0", "2", "-", "3", "0">>, birth_time |-> NominalTime] >>

\* The place of birth: what the geocoder answers for the location string and
\* the UTC offset in force there (minutes east of Greenwich, no DST).
NominalPlace ==
    [utc_offset |-> 120,
     geo |-> [kind |-> "ok", lat |-> -26200, lng |-> 28050]]

PlaceFaults ==
    << [utc_offset |-> 120, geo |-> [kind |-> "empty", lat |-> 0, lng |-> 0]],
       [utc_offset |-> 120,
        geo |-> [kind |-> "request_exception", lat |-> 0, lng |-> 0]],
       [utc_offset |-> 120,
        geo |-> [kind |-> "key_error", lat |-> 0, lng |-> 0]],
       [utc_offset |-> 0, geo |-> [kind |-> "ok", lat |-> 5600, lng |-> -190]],
       [utc_offset |-> -300,
        geo |-> [kind |-> "ok", lat |-> -12050, lng |-> -77040]] >>

NominalCusps ==
    <<283450, 318120, 352780, 22340, 48910, 76560, 103450, 138120, 172780,
      202340, 228910, 256560>>

NominalAscmc == <<283450, 198760>>

HousesReturn(cusps, ascmc) ==
    [kind |-> "return", cusps |-> cusps, ascmc |-> ascmc]

NominalHouses == HousesReturn(NominalCusps, NominalAscmc)

HousesFaults ==
    << [kind |-> "raise", cusps |-> <<>>, ascmc |-> <<>>],
       HousesReturn(SubSeq(NominalCusps, 1, 11), NominalAscmc),
       HousesReturn([NominalCusps EXCEPT ![3] = 360000], NominalAscmc),
       HousesReturn([NominalCusps EXCEPT ![3] = 359996], NominalAscmc),
       HousesReturn(NominalCusps, <<>>) >>

\* Input slots: 1 the birth moment, 2 the place, 3 the houses, 4..13 the
\* bodies swe.SUN..swe.PLUTO.
BodySlot(planet) == planet + 4

Slots == 1..BodySlot(Len(PlanetDict) - 1)

Alternatives(slot) ==
    IF slot = 1 THEN Len(MomentFaults)
    ELSE IF slot = 2 THEN Len(PlaceFaults)
    ELSE IF slot = 3 THEN Len(HousesFaults)
    ELSE Len(BodyFaults(slot - 4))

MostAlternatives == Len(BodyFaults(0))

\* The choices of at most MaxFaults slots among S, each with the index of the
\* alternative taken.
FaultChoices(S) ==
    UNION { { f \in [F -> 1..MostAlternatives] :
                  \A k \in F : f[k] <= Alternatives(k) } :
            F \in { G \in SUBSET S : Cardinality(G) <= MaxFaults } }

WorldOf(f, order) ==
    LET place == IF 2 \in DOMAIN f THEN PlaceFaults[f[2]] ELSE NominalPlace
    IN  [utc_offset  |-> place.utc_offset,
         geo         |-> place.geo,
         houses      |-> IF 3 \in DOMAIN f THEN HousesFaults[f[3]]
                         ELSE NominalHouses,
         eph         |-> [i \in 1..Len(PlanetDict) |->
                             IF BodySlot(i - 1) \in DOMAIN f
                                 THEN BodyFaults(i - 1)[f[BodySlot(i - 1)]]
                                 ELSE NominalEph(i - 1)],
         tuple_order |-> order]

NominalWorld == WorldOf(<<>>, "pos_first")

MomentOf(f) ==
    IF 1 \in DOMAIN f THEN MomentFaults[f[1]]
    ELSE [birth_date |-> NominalDate, birth_time |-> NominalTime]

TupleOrders == {"pos_first", "status_first"}

\* Calls of the handler main_arabic.py defines first.
ChartCalls(S) ==
    { [target  |-> "main_arabic.calculate_chart@159",
       details |-> [name |-> "Layla",
                    birth_date |-> MomentOf(f).birth_date,
                    birth_time |-> MomentOf(f).birth_time,
                    location |-> "Johannesburg"],
       world   |-> WorldOf(f, o)] : f \in FaultChoices(S), o \in TupleOrders }

\* Requests to the application uvicorn serves as "main_arabic:app".
ServedCalls ==
    { [target  |-> "main_arabic:app",
       details |-> [name |-> "Layla",
                    birth_date |-> MomentOf(f).birth_date,
                    birth_time |-> MomentOf(f).birth_time,
                    location |-> "Johannesburg"],
       world   |-> NominalWorld] : f \in FaultChoices({1}) }

\* Requests to main.py's application.
MainCalls(S) ==
    { [target  |-> "main:app",
       details |-> [name |-> "Layla",
                    birth_date |-> MomentOf(f).birth_date,
                    birth_time |-> MomentOf(f).birth_time,
                    latitude |-> NominalPlace.geo.lat,
                    longitude |-> NominalPlace.geo.lng],
       world   |-> WorldOf(f, o)] :
      f \in FaultChoices(S \ {2, 3}), o \in TupleOrders }

\* Longitudes get_arabic_zodiac_sign is probed with: every quarter degree of
\* [0, 360) and the millidegree on either side of every sign boundary.
ProbeDegrees ==
    { L \in 0..359999 : L % 250 = 0 \/ L % 30000 \in {1, 29999} }

SignCalls ==
    { [target  |-> "get_arabic_zodiac_sign",
       details |-> [degree |-> L],
       world   |-> NominalWorld] : L \in ProbeDegrees }

Calls == ChartCalls(Slots) \cup ServedCalls \cup MainCalls(Slots) \cup SignCalls

\* The calls repeated for comparison: faults in the house answer and the
\* first body only, each handler with the tuple order it expects.
ProbeCalls ==
    { c \in ChartCalls({3, 4}) : c.world.tuple_order = "pos_first" } \cup
    { c \in MainCalls({4}) : c.world.tuple_order = "status_first" }

-----------------------------------------------------------------------------
(* State *)

NoDetails == [none |-> TRUE]

NoWorld == [none |-> TRUE]

Nothing ==
    [target |-> "none", details |-> NoDetails, world |-> NoWorld,
     response |-> NoResponse, escaped |-> "none"]

Init ==
    /\ loadpc = "L18"
    /\ ARABIC_ZODIAC_SIGNS = <<>>
    /\ PLANETS_ARABIC = <<>>
    /\ app = 0
    /\ routes = <<>>
    /\ phase = "idle"
    /\ target = "none"
    /\ details = NoDetails
    /\ world = NoWorld
    /\ response = NoResponse
    /\ escaped = "none"
    /\ eph_jd = NoCall
    /\ remembered = Nothing
    /\ between = 0

callvars == <<phase, target, details, world, response, escaped, eph_jd,
              remembered, between>>

-----------------------------------------------------------------------------
(* Loading main_arabic.py: its module-level statements, in order *)

\* line 18
Load_ARABIC_ZODIAC_SIGNS ==
    /\ loadpc = "L18"
    /\ ARABIC_ZODIAC_SIGNS' = ZodiacSignList
    /\ loadpc' = "L24"
    /\ UNCHANGED <<PLANETS_ARABIC, app, routes, callvars>>

\* line 24
Load_PLANETS_ARABIC ==
    /\ loadpc = "L24"
    /\ PLANETS_ARABIC' = PlanetDict
    /\ loadpc' = "L110"
    /\ UNCHANGED <<ARABIC_ZODIAC_SIGNS, app, routes, callvars>>

\* app = FastAPI(): a new instance with no routes, bound to the name app.
FastAPI(next) ==
    /\ routes' = Append(routes, <<>>)
    /\ app' = Len(routes) + 1
    /\ loadpc' = next
    /\ UNCHANGED <<ARABIC_ZODIAC_SIGNS, PLANETS_ARABIC, callvars>>

\* @app.post("/calculate_chart/"): the function is added to the routes of the
\* instance app is bound to at that moment.
app_post(handler, next) ==
    /\ routes' = [routes EXCEPT ![app] = Append(@, handler)]
    /\ loadpc' = next
    /\ UNCHANGED <<ARABIC_ZODIAC_SIGNS, PLANETS_ARABIC, app, callvars>>

\* line 110
Load_app_110 == loadpc = "L110" /\ FastAPI("L158")

\* lines 158-159
Load_post_158 == loadpc = "L158" /\ app_post("calculate_chart@159", "L204")

\* line 204
Load_app_204 == loadpc = "L204" /\ FastAPI("L215")

\* lines 215-216
Load_post_215 == loadpc = "L215" /\ app_post("calculate_chart@216", "loaded")

-----------------------------------------------------------------------------
(* Calls *)

ReceiveFrom(S) ==
    /\ loadpc = "loaded"
    /\ phase = "idle"
    /\ \E c \in S :
           /\ target' = c.target
           /\ details' = c.details
           /\ world' = c.world
    /\ phase' = "pending"
    /\ UNCHANGED <<loadpc, ARABIC_ZODIAC_SIGNS, PLANETS_ARABIC, app, routes,
                   response, escaped, eph_jd, remembered, between>>

Receive == ReceiveFrom(Calls)

ReceiveProbe == ReceiveFrom(ProbeCalls)

Finish(out) ==
    /\ phase' = "done"
    /\ response' = out.response
    /\ escaped' = out.escaped
    /\ eph_jd' = out.eph
    /\ UNCHANGED <<loadpc, app, routes, target, details, world, remembered,
                   between>>

\* A variant of the handler that consumes the planet table as it iterates.
calculate_chart_consuming ==
    /\ phase = "pending"
    /\ target = "main_arabic.calculate_chart@159"
    /\ Finish(calculate_chart_return(details))
    /\ PLANETS_ARABIC' = <<>>
    /\ UNCHANGED ARABIC_ZODIAC_SIGNS

\* main_arabic.py lines 159-200.
calculate_chart ==
    /\ phase = "pending"
    /\ target = "main_arabic.calculate_chart@159"
    /\ Finish(calculate_chart_return(details))
    /\ UNCHANGED <<ARABIC_ZODIAC_SIGNS, PLANETS_ARABIC>>

\* main.py lines 55-67.
main_calculate_chart ==
    /\ phase = "pending"
    /\ target = "main:app"
    /\ Finish(main_calculate_chart_return(details))
    /\ UNCHANGED <<ARABIC_ZODIAC_SIGNS, PLANETS_ARABIC>>

\* The handler an application instance runs for POST /calculate_chart/: the
\* first route registered on that instance.
RouteOf(instance) == Head(routes[instance])

\* POST /calculate_chart/ to the application served as "main_arabic:app".
serve_main_arabic ==
    /\ phase = "pending"
    /\ target = "main_arabic:app"
    /\ Finish(IF RouteOf(app) = "calculate_chart@159"
                  THEN calculate_chart_return(details)
                  ELSE calculate_chart_stub_return(details))
    /\ UNCHANGED <<ARABIC_ZODIAC_SIGNS, PLANETS_ARABIC>>

\* get_arabic_zodiac_sign(degree) called on its own.
call_get_arabic_zodiac_sign ==
    /\ phase = "pending"
    /\ target = "get_arabic_zodiac_sign"
    /\ LET z == get_arabic_zodiac_sign(details.degree)
       IN  Finish(IF z.exc = "none" THEN Returned([sign |-> z.val], NoCall)
                  ELSE Raised(z.exc, NoCall))
    /\ UNCHANGED <<ARABIC_ZODIAC_SIGNS, PLANETS_ARABIC>>

SameCall ==
    /\ remembered.target = target
    /\ remembered.details = details
    /\ remembered.world = world

Clear ==
    /\ phase' = "idle"
    /\ target' = "none"
    /\ details' = NoDetails
    /\ world' = NoWorld
    /\ response' = NoResponse
    /\ escaped' = "none"
    /\ eph_jd' = NoCall
    /\ UNCHANGED <<loadpc, ARABIC_ZODIAC_SIGNS, PLANETS_ARABIC, app, routes>>

\* The result is handed to the caller.
Respond ==
    /\ phase = "done"
    /\ Clear
    /\ between' = IF remembered # Nothing /\ ~SameCall /\ between < MaxBetween
                      THEN between + 1 ELSE between
    /\ UNCHANGED remembered

\* As Respond, and the call and its result are kept for comparison.
Remember ==
    /\ phase = "done"
    /\ remembered = Nothing
    /\ remembered' = [target |-> target, details |-> details,
                      world |-> world, response |-> response,
                      escaped |-> escaped]
    /\ between' = 0
    /\ Clear

Load ==
    \/ Load_ARABIC_ZODIAC_SIGNS
    \/ Load_PLANETS_ARABIC
    \/ Load_app_110
    \/ Load_post_158
    \/ Load_app_204
    \/ Load_post_215

Next ==
    \/ Load
    \/ Receive
    \/ calculate_chart
    \/ main_calculate_chart
    \/ serve_main_arabic
    \/ call_get_arabic_zodiac_sign
    \/ Respond

Spec == Init /\ [][Next]_vars

NextTwice ==
    \/ Load
    \/ ReceiveProbe
    \/ calculate_chart
    \/ main_calculate_chart
    \/ Respond
    \/ Remember

SpecTwice == Init /\ [][NextTwice]_vars

-----------------------------------------------------------------------------
(* Properties *)

ChartTarget == "main_arabic.calculate_chart@159"

ChartFields == {"chart_in_arabic", "ascendant", "houses", "location"}

PlanetNames == [i \in 1..Len(PlanetDict) |-> PlanetDict[i][2]]

\* The birth moment as the handler called parses it.
Parsed ==
    IF target = "main:app"
        THEN main_parse(details.birth_date, details.birth_time)
        ELSE strptime(details.birth_date, details.birth_time)

CivilJulianDay ==
    julday(Parsed.year, Parsed.month, Parsed.day, Parsed.hour, Parsed.minute)

\* C1: every call of calculate_chart, in main_arabic.py and in main.py,
\* whatever the collaborators do, returns a result object (the chart or a
\* payload tagged "error") and lets no exception escape.
C1_NoExceptionEscapes ==
    (phase = "done" /\ target \in {ChartTarget, "main:app"}) =>
        /\ escaped = "none"
        /\ ("chart_in_arabic" \in DOMAIN response \/ "error" \in DOMAIN response)

\* An ephemeris answer that signals a calculation failure for its body.
SignalsFailure(a) ==
    \/ a.kind = "raise"
    \/ a.status.t # "int"
    \/ a.status.int < 0
    \/ a.pos.t # "seq"
    \/ Len(a.pos.seq) = 0

\* An ephemeris answer with a good status and a longitude in [0, 360).
GoodAnswer(a) ==
    /\ ~SignalsFailure(a)
    /\ a.pos.seq[1] >= 0
    /\ a.pos.seq[1] < 360000

\* The handler is given the answer pair in the order it unpacks it.
ExpectedOrder ==
    world.tuple_order =
        IF target = "main:app" THEN "status_first" ELSE "pos_first"

PlanetsResult ==
    IF target = "main:app"
        THEN main_calculate_planetary_positions(eph_jd.jd)
        ELSE calculate_planetary_positions(eph_jd.jd)

\* C2: when the ephemeris signals a failure for some body (bad status, bad
\* position or a raising call), calculate_planetary_positions still returns
\* one record per body, in order: an error marker for a failed body, position
\* and zodiac sign for every other; the loop is never aborted.
C2_FailureIsolatedToBody ==
    ( /\ phase = "done"
      /\ target \in {ChartTarget, "main:app"}
      /\ eph_jd.called
      /\ ExpectedOrder
      /\ \A i \in 1..Len(PlanetDict) :
             SignalsFailure(world.eph[i]) \/ GoodAnswer(world.eph[i]) ) =>
        LET p == PlanetsResult
        IN  /\ p.exc = "none"
            /\ DictKeys(p.val) = PlanetNames
            /\ \A i \in 1..Len(PlanetDict) :
                   IF SignalsFailure(world.eph[i])
                       THEN "error" \in DOMAIN p.val[i][2]
                       ELSE {"position", "zodiac_sign"} \subseteq
                                DOMAIN p.val[i][2]

TimeParsingFails ==
    strptime(details.birth_date, details.birth_time).exc # "none"

GeocodingFails == get_coordinates(details.location).exc # "none"

\* calculate_houses_and_ascendant reports a failure as a returned value.
HouseCalculationFails ==
    LET c == get_coordinates(details.location)
    IN  "error" \in DOMAIN calculate_houses_and_ascendant(CivilJulianDay,
                                                          c.lat, c.lng)

RequestFatal ==
    /\ phase = "done"
    /\ target = ChartTarget
    /\ TimeParsingFails \/ GeocodingFails \/ HouseCalculationFails

C4_SignIndexIsFloor ==
    (phase = "done" /\ target = "get_arabic_zodiac_sign") =>
        LET L == details.degree
        IN  /\ escaped = "none"
            /\ \E i \in 0..11 :
                   /\ i * 30000 <= L
                   /\ L < i * 30000 + 30000
                   /\ response.sign = ZodiacSignList[i + 1]
                   /\ main_get_arabic_zodiac_sign(L).val = ZodiacSignList[i + 1]
            /\ (L = 0 => response.sign = ZodiacSignList[1])
            /\ (L = 359999 => response.sign = ZodiacSignList[12])

C4_Witness_LastMillidegree ==
    /\ phase = "done"
    /\ target = "get_arabic_zodiac_sign"
    /\ details.degree = 359999
    /\ response = [sign |-> "al-Hut"]

\* C5: the Julian Day handed to the ephemeris is that of the UTC instant: the
\* civil birth time less the birth place's UTC offset (1990-06-15 14:30 at
\* UTC+2 gives the Julian Day of 1990-06-15 12:30 UTC).
C5_JulianDayIsUtc ==
    (phase = "done" /\ target \in {ChartTarget, "main:app"} /\ eph_jd.called) =>
        eph_jd.jd = CivilJulianDay - world.utc_offset

\* C6: a request whose birth year lies outside [1800, 2400] fails with
\* DateOutOfRange and no chart is assembled for it.
C6_YearOutOfRangeRejected ==
    ( /\ phase = "done"
      /\ target \in {ChartTarget, "main:app"}
      /\ Parsed.exc = "none"
      /\ (Parsed.year < 1800 \/ Parsed.year > 2400) ) =>
        /\ "chart_in_arabic" \notin DOMAIN response
        /\ "error" \in DOMAIN response
        /\ response.error = "DateOutOfRange"

\* A reported value in centidegrees lies in [0, 360) and its sign is the one
\* with index floor(value / 30).
ReportedConsistent(value, sign) ==
    /\ value >= 0
    /\ value < 36000
    /\ sign = ZodiacSignList[(value \div 3000) + 1]

\* C7: every reported body position, house cusp degree and ascendant degree
\* lies in [0, 360) and carries the sign with index floor(reported / 30),
\* whatever longitude the ephemeris returned.
C7_ReportedPositionsNormalised ==
    (phase = "done" /\ "chart_in_arabic" \in DOMAIN response) =>
        /\ \A i \in 1..Len(response.chart_in_arabic) :
               LET rec == response.chart_in_arabic[i][2]
               IN  "position" \in DOMAIN rec =>
                       ReportedConsistent(rec.position, rec.zodiac_sign)
        /\ "houses" \in DOMAIN response =>
               /\ \A i \in 1..Len(response.houses) :
                      ReportedConsistent(response.houses[i][2].degree,
                                         response.houses[i][2].zodiac_sign)
               /\ ReportedConsistent(response.ascendant.degree,
                                     response.ascendant.zodiac_sign)

\* L lies in the circular interval [from, to) of the ecliptic.
CircularContains(from, to, L) ==
    IF from <= to THEN from <= L /\ L < to
    ELSE L >= from \/ L < to

HouseContains(houses, i, L) ==
    CircularContains(houses[i][2].degree,
                     houses[(i % 12) + 1][2].degree, L)

\* C8: every assembled chart holds exactly one house assignment per body
\* with a position, to the house whose circular interval
\* [cusp[i], cusp[(i+1) mod 12]) contains the body's longitude.
C8_OneHousePerBody ==
    (phase = "done" /\ target = ChartTarget
        /\ "chart_in_arabic" \in DOMAIN response) =>
        /\ "house_assignments" \in DOMAIN response
        /\ \A i \in 1..Len(response.chart_in_arabic) :
               LET rec == response.chart_in_arabic[i][2]
                   name == response.chart_in_arabic[i][1]
               IN  "position" \in DOMAIN rec =>
                       /\ DictHas(response.house_assignments, name)
                       /\ HouseContains(response.houses,
                              DictGet(response.house_assignments, name),
                              rec.position)

\* C9: a call repeated with the same request and the same collaborator
\* answers returns what it returned before, whatever calls were handled in
\* between, and the body records are in the fixed enumeration order.
C9_RepeatedCallSameResult ==
    (phase = "done" /\ remembered # Nothing /\ SameCall) =>
        /\ response = remembered.response
        /\ escaped = remembered.escaped
        /\ "chart_in_arabic" \in DOMAIN response =>
               DictKeys(response.chart_in_arabic) = PlanetNames

C9_Witness_RepeatedAfterOthers ==
    /\ phase = "done"
    /\ remembered # Nothing
    /\ SameCall
    /\ between >= 1
    /\ target = ChartTarget
    /\ "chart_in_arabic" \in DOMAIN response
    /\ \E i \in 1..Len(response.chart_in_arabic) :
           "error" \in DOMAIN response.chart_in_arabic[i][2]

\* C10: once main_arabic.py is loaded, the application bound to app answers
\* POST /calculate_chart/ with the chart-computing handler: the assembled
\* chart or a structured error.
C10_ServedAppComputesChart ==
    (loadpc = "loaded" /\ phase = "done" /\ target = "main_arabic:app") =>
        /\ RouteOf(app) = "calculate_chart@159"
        /\ ("chart_in_arabic" \in DOMAIN response \/ "error" \in DOMAIN response)

====
